---- MODULE Spec2Model ----
(***************************************************************************)
(* joblib.memory: the lookup / compute / persist pipeline of               *)
(* MemorizedFunc, the change check on the wrapped function's source, the   *)
(* pass-through handle used without a store, result references, and the    *)
(* coroutine variant AsyncMemorizedFunc.                                   *)
(*                                                                         *)
(* The store backend and the helpers of func_inspect / hashing are not     *)
(* part of memory.py; they are modelled from their documented contract.    *)
(***************************************************************************)
EXTENDS Integers, Sequences, FiniteSets, TLC

VARIABLES
    store_code,        \* backend: func_id -> stored source text (func_code.py)
    store_items,       \* backend: (func_id, args_id) -> artifact (output.pkl)
    store_meta,        \* backend: (func_id, args_id) -> metadata (metadata.json)
    store_access,      \* backend: the stored artifacts in the order of their
                       \* last access, the least recently used first
    FUNCTION_HASHES,   \* _FUNCTION_HASHES: live callable -> (id, hash, code hash)
    live,              \* the callables currently bound to a name and wrapped
    definitions,       \* every callable that has been bound and wrapped so far
    mmap_mode,         \* Memory.mmap_mode: "none" or "r"
    accumulator,       \* per cache path: executions of the body since the
                       \* artifact was last cleared, redefined or damaged
    pc,                \* per task: "idle", "awaiting" (suspended in await),
                       \* or the statement of _cached_call it is about to
                       \* run: "compute", "dump", "persist", "return"
    awaited,           \* per task: the coroutine object the task awaits
    running,           \* per task: the call of _cached_call in progress
                       \* (callable, argument, duration and its locals)
    last               \* what the most recent operation did and returned

vars == <<store_code, store_items, store_meta, store_access, FUNCTION_HASHES,
          live, definitions, mmap_mode, accumulator, pc, awaited, running,
          last>>

storeVars == <<store_code, store_items, store_meta>>

-----------------------------------------------------------------------------
(* Bounds of the model *)

MaxArg == 1
MaxDuration == 1
MaxRuns == 2
MaxBytes == 3

ArgValues == 0..MaxArg
Durations == 1..MaxDuration
Tasks == {"t1", "t2"}

-----------------------------------------------------------------------------
(* The wrapped callables.  f1 and f2 are two definitions of the same       *)
(* function m.f (f2 is f rebound to a different body at the same place);   *)
(* co is a coroutine function m.co; fr is a plain function m.fr that       *)
(* raises on the argument 0; fi is a plain function m.fi(l, k) wrapped     *)
(* with ignore=['k'], called with the pair <<l, k>>; la and lb are two     *)
(* lambdas of module m, written at lines 1 and 3 of m.py; ab and ab2 are   *)
(* two definitions of the function b of module a, and abc is the function  *)
(* c of module a.b.                                                        *)

SyncFuncs == {"f1", "f2"}
CoroFuncs == {"co"}
RaisingFuncs == {"fr"}
IgnoringFuncs == {"fi"}
LambdaFuncs == {"la", "lb"}
NestedFuncs == {"ab", "ab2", "abc"}
Funcs ==
    SyncFuncs \cup CoroFuncs \cup RaisingFuncs \cup IgnoringFuncs
      \cup LambdaFuncs \cup NestedFuncs

\* The values of the ignored parameter k.
IgnoredValues == {0, 1}

\* The arguments a callable is called with.
ArgsOf(c) ==
    IF c \in IgnoringFuncs THEN ArgValues \X IgnoredValues ELSE ArgValues

\* The argument recorded for an operation that takes none.
NoArgs(c) == IF c \in IgnoringFuncs THEN <<0, 0>> ELSE 0

\* self.ignore of the handle of a callable.
ignore(c) == IF c \in IgnoringFuncs THEN {"k"} ELSE {}

FIRST_LINE_TEXT == "# first line:"

IsCoroutineFunction(c) == c \in CoroFuncs

\* The source text of a callable, as a sequence of lines.
SourceOf(c) ==
    CASE c = "f1" -> << <<"def f(l):">>, <<"    return l">> >>
      [] c = "f2" -> << <<"def f(l):">>, <<"    return l + 1">> >>
      [] c = "co" -> << <<"async def co(l):">>, <<"    return l">> >>
      [] c = "fr" -> << <<"def fr(l):">>, <<"    return 1 // l">> >>
      [] c = "fi" -> << <<"def fi(l, k):">>, <<"    return l">> >>
      [] c = "la" -> << <<"a = lambda l: l">> >>
      [] c = "lb" -> << <<"b = lambda l: l + 1">> >>
      [] c = "ab" -> << <<"def b(l):">>, <<"    return l">> >>
      [] c = "ab2" -> << <<"def b(l):">>, <<"    return l + 1">> >>
      [] c = "abc" -> << <<"def c(l):">>, <<"    return l + 2">> >>

\* func_inspect.get_func_name: (module components, name).
get_func_name(c) ==
    IF c \in SyncFuncs THEN [modules |-> <<"m">>, name |-> "f"]
    ELSE IF c \in LambdaFuncs THEN [modules |-> <<"m">>, name |-> "<lambda>"]
    ELSE IF c \in {"ab", "ab2"} THEN [modules |-> <<"a">>, name |-> "b"]
    ELSE IF c = "abc" THEN [modules |-> <<"a", "b">>, name |-> "c"]
    ELSE [modules |-> <<"m">>, name |-> c]

\* func_inspect.get_func_code: (source text, source file, first line).
get_func_code(c) ==
    [code |-> SourceOf(c), source_file |-> "m.py",
     first_line |-> IF c = "lb" THEN 3 ELSE 1]

\* What the body of a callable computes from its argument.
Body(c, x) ==
    CASE c = "f1" -> x
      [] c = "f2" -> x + 1
      [] c = "co" -> x
      [] c = "fr" -> 1 \div x
      [] c = "fi" -> x[1]
      [] c = "la" -> x
      [] c = "lb" -> x + 1
      [] c = "ab" -> x
      [] c = "ab2" -> x + 1
      [] c = "abc" -> x + 2

\* The arguments on which the body of a callable raises.
Raises(c, x) == c \in RaisingFuncs /\ x = 0

-----------------------------------------------------------------------------
(* Values.  Every value is a record [kind, v, src]:                        *)
(*   kind "raw"  - an in-memory value, as the function returns it          *)
(*   kind "mmap" - a memory-mapped view, as load_item returns it when      *)
(*                 mmap_mode is set                                        *)
(*   kind "coro" - a coroutine object of callable src on argument v, whose *)
(*                 body has not run                                        *)
(*   kind "none" - None;  kind "raise" - an exception reached the caller   *)

Raw(v) == [kind |-> "raw", v |-> v, src |-> ""]
Mapped(v) == [kind |-> "mmap", v |-> v, src |-> ""]
Coroutine(c, x) == [kind |-> "coro", v |-> x, src |-> c]
None == [kind |-> "none", v |-> 0, src |-> ""]
Raised(what) == [kind |-> "raise", v |-> 0, src |-> what]

\* An exception is in flight: it leaves every enclosing call.
IsRaised(out) == out.kind = "raise"

\* self.func(*args, **kwargs): a plain function runs its body, which returns
\* or raises; a coroutine function returns a coroutine object and runs
\* nothing yet.
Invoke(c, x) ==
    IF IsCoroutineFunction(c)
    THEN [out |-> Coroutine(c, x), ran |-> 0]
    ELSE IF Raises(c, x)
    THEN [out |-> Raised("ZeroDivisionError"), ran |-> 1]
    ELSE [out |-> Raw(Body(c, x)), ran |-> 1]

-----------------------------------------------------------------------------
(* The store backend (StoreBackendBase / FileSystemStoreBackend), from its *)
(* contract.  The operations act on a frame: a record holding the store   *)
(* (code, items, meta, access), the identity cache (hashes), the          *)
(* backend operations performed so far by the running handler (ops), the  *)
(* values handed to dump_item (dumped), the warnings emitted (warns), and *)
(* the locals of the running handler: ok (the verdict of the change       *)
(* check), out, args_id, metadata (<<>> for None, <<m>> otherwise), ran   *)
(* (executions of the body) and ref (the reference built).                *)

Logged(w, op) == [w EXCEPT !.ops = Append(@, op)]

Warned(w, msg) == [w EXCEPT !.warns = Append(@, msg)]

IsPrefix(p, q) == Len(p) <= Len(q) /\ SubSeq(q, 1, Len(p)) = p

\* The serializer: an artifact keeps the data, not the variety of the value.
Serialize(val) ==
    [form |-> IF val.kind = "coro" THEN "coro" ELSE "array",
     data |-> val.v, src |-> val.src, readable |-> TRUE]

\* Deserialization; arrays come back memory-mapped when mmap_mode is set.
Deserialize(art, mode) ==
    IF art.form = "coro" THEN Coroutine(art.src, art.data)
    ELSE IF mode # "none" THEN Mapped(art.data)
    ELSE Raw(art.data)

contains_item(w, path) == path \in DOMAIN w.items

\* The sequence without the paths of S.
Without(order, S) ==
    LET kept(p) == p \notin S IN SelectSeq(order, kept)

\* A read or a write of an artifact sets its access time to now.
touched(w, path) ==
    [w EXCEPT !.access = Append(Without(@, {path}), path)]

\* load_item fails with LoadError on a missing or damaged artifact.
load_item_fails(w, path) ==
    path \notin DOMAIN w.items \/ ~w.items[path].readable

load_item(w, path, mode) == Deserialize(w.items[path], mode)

dump_item(w, path, value) ==
    [w EXCEPT !.items = (path :> Serialize(value)) @@ @,
              !.access = Append(Without(@, {path}), path),
              !.ops = Append(@, "dump_item"),
              !.dumped = Append(@, value)]

\* get_metadata: the stored map, the empty map when absent.
get_metadata(w, path) ==
    IF path \in DOMAIN w.meta THEN w.meta[path] ELSE <<>>

store_metadata(w, path, metadata) ==
    [w EXCEPT !.meta = (path :> metadata) @@ @,
              !.ops = Append(@, "store_metadata")]

has_cached_func_code(w, func_id) == func_id \in DOMAIN w.code

get_cached_func_code(w, func_id) == w.code[func_id]

\* store_cached_func_code: with no source (the empty text) it only creates
\* the container of the function and leaves any stored source alone.
store_cached_func_code(w, func_id, source) ==
    IF source = <<>>
    THEN Logged(w, "store_cached_func_code")
    ELSE [w EXCEPT !.code = (func_id :> source) @@ @,
                   !.ops = Append(@, "store_cached_func_code")]

\* clear_path removes the directory of the function: its stored source,
\* its artifacts and everything stored below it.
clear_path(w, func_id) ==
    [w EXCEPT
       !.code = [f \in {g \in DOMAIN @ : ~IsPrefix(func_id, g)} |-> @[f]],
       !.items = [p \in {q \in DOMAIN @ : ~IsPrefix(func_id, q[1])} |-> @[p]],
       !.meta = [p \in {q \in DOMAIN @ : ~IsPrefix(func_id, q[1])} |-> @[p]],
       !.access = Without(@, {q \in DOMAIN w.items : IsPrefix(func_id, q[1])}),
       !.ops = Append(@, "clear_path")]

clear_item(w, path) ==
    [w EXCEPT
       !.items = [p \in DOMAIN @ \ {path} |-> @[p]],
       !.meta = [p \in DOMAIN @ \ {path} |-> @[p]],
       !.access = Without(@, {path}),
       !.ops = Append(@, "clear_item")]

\* clear(): the whole store.
clear_store(w) ==
    [w EXCEPT !.code = <<>>, !.items = <<>>, !.meta = <<>>,
              !.access = <<>>, !.ops = Append(@, "clear")]

\* The bytes an artifact takes in the store.
item_size(art) == 1 + art.data

RECURSIVE store_size(_)
store_size(items) ==
    IF DOMAIN items = {} THEN 0
    ELSE item_size(items[CHOOSE p \in DOMAIN items : TRUE])
           + store_size([q \in DOMAIN items
                              \ {CHOOSE p \in DOMAIN items : TRUE} |-> items[q]])

\* The least recently used artifact goes, with its metadata.
evict_least_recently_used(w) ==
    [w EXCEPT
       !.items = [p \in DOMAIN @ \ {w.access[1]} |-> @[p]],
       !.meta = [p \in DOMAIN @ \ {w.access[1]} |-> @[p]],
       !.access = Tail(@),
       !.ops = Append(@, "clear_location")]

\* reduce_store_size: least recently used artifacts are removed, one whole
\* artifact at a time, until the stored bytes fit in the limit.
RECURSIVE reduce_store_size(_, _)
reduce_store_size(w, bytes_limit) ==
    IF store_size(w.items) <= bytes_limit \/ w.access = <<>>
    THEN Logged(w, "reduce_store_size")
    ELSE reduce_store_size(evict_least_recently_used(w), bytes_limit)

-----------------------------------------------------------------------------
(* Function identity: hashing, func_inspect and the identifiers built     *)
(* from them.                                                              *)

\* The arguments bound to the parameter names of the callable.
bound_args(c, x) ==
    IF c \in IgnoringFuncs THEN [l |-> x[1], k |-> x[2]] ELSE [l |-> x]

\* func_inspect.filter_args: name -> value, without the ignored names.
filter_args(c, ignored, x) ==
    [n \in DOMAIN bound_args(c, x) \ ignored |-> bound_args(c, x)[n]]

\* hashing.hash: a digest of the filtered arguments.
hash(argument_dict) ==
    "md5:" \o ToString(argument_dict.l)
           \o (IF "k" \in DOMAIN argument_dict
               THEN "," \o ToString(argument_dict.k) ELSE "")

\* repr() of an argument value.
repr(v) == ToString(v)

build_func_identifier(c) ==
    LET n == get_func_name(c) IN Append(n.modules, n.name)

\* Identifiers that ignore the arguments.
get_output_identifiers_one_digest(c, x) ==
    <<build_func_identifier(c), hash([l |-> 0])>>

\* Identifiers computed from all the arguments, the ignored ones too.
get_output_identifiers_no_ignore(c, x) ==
    <<build_func_identifier(c), hash(filter_args(c, {}, x))>>

get_output_identifiers(c, x) ==
    <<build_func_identifier(c), hash(filter_args(c, ignore(c), x))>>

\* (id(func), hash(func), hash(func.__code__))
hash_func(c) == <<c, c, SourceOf(c)>>

LineNumbers == {-1, 1, 3}

\* int() of the decimal text written by '%i'.
ParseInt(s) == CHOOSE n \in LineNumbers : ToString(n) = s

extract_first_line(func_code) ==
    IF func_code # <<>> /\ Head(func_code)[1] = FIRST_LINE_TEXT
    THEN [code |-> Tail(func_code), first_line |-> ParseInt(Head(func_code)[2])]
    ELSE [code |-> func_code, first_line |-> -1]

is_named_callable(c) == get_func_name(c).name # "<lambda>"

\* The in-memory half of _write_func_code.
remember_func_hash(w, c) ==
    IF is_named_callable(c)
    THEN [w EXCEPT !.hashes = (c :> hash_func(c)) @@ @]
    ELSE w

write_func_code(w, c, func_code, first_line) ==
    remember_func_hash(
      store_cached_func_code(w, build_func_identifier(c),
        << <<FIRST_LINE_TEXT, ToString(first_line)>> >> \o func_code), c)

\* A clear that rewrites the stored source and keeps the artifacts.
clear_keeping_items(w, c) ==
    write_func_code(Logged(w, "clear_path"), c,
                    get_func_code(c).code, get_func_code(c).first_line)

clear(w, c) ==
    write_func_code(clear_path(w, build_func_identifier(c)), c,
                    get_func_code(c).code, get_func_code(c).first_line)

\* The text of the source file at old_first_line, for as many lines as the
\* current source has: the file holds the current definition at its place.
on_disk_func_code(c, old_first_line) ==
    IF old_first_line = get_func_code(c).first_line THEN SourceOf(c)
    ELSE IF c \in LambdaFuncs
            /\ \E d \in LambdaFuncs :
                 get_func_code(d).first_line = old_first_line
    THEN SourceOf(CHOOSE d \in LambdaFuncs :
                    get_func_code(d).first_line = old_first_line)
    ELSE <<>>

\* The collision warnings of one run of the change check on differing code.
cannot_detect_warning(w, c, old) ==
    IF (old.first_line = get_func_code(c).first_line
        /\ get_func_code(c).first_line = -1)
       \/ get_func_name(c).name = "<lambda>"
    THEN Warned(w, "Cannot detect name collisions")
    ELSE w

possible_collision_warning(w, c, old) ==
    IF old.first_line # get_func_code(c).first_line
       /\ on_disk_func_code(c, old.first_line) = old.code
    THEN Warned(w, "Possible name collisions")
    ELSE w

collision_warnings(w, c, old) ==
    possible_collision_warning(cannot_detect_warning(w, c, old), c, old)

\* A change check that never takes the fast path and always finds a change.
check_previous_func_code_always_changed(w, c) ==
    [clear(Logged(w, "get_cached_func_code"), c) EXCEPT !.ok = FALSE]

\* MemorizedFunc._check_previous_func_code; ok is the boolean it returns.
check_previous_func_code(w, c) ==
    IF c \in DOMAIN w.hashes /\ hash_func(c) = w.hashes[c]
    THEN [w EXCEPT !.ok = TRUE]
    ELSE IF ~has_cached_func_code(w, build_func_identifier(c))
    THEN [write_func_code(Logged(w, "get_cached_func_code"), c,
                          get_func_code(c).code, get_func_code(c).first_line)
            EXCEPT !.ok = FALSE]
    ELSE IF extract_first_line(
              get_cached_func_code(w, build_func_identifier(c))).code
            = get_func_code(c).code
    THEN [Logged(w, "get_cached_func_code") EXCEPT !.ok = TRUE]
    ELSE [clear(collision_warnings(
                   Logged(w, "get_cached_func_code"), c,
                   extract_first_line(
                     get_cached_func_code(w, build_func_identifier(c)))), c)
            EXCEPT !.ok = FALSE]

-----------------------------------------------------------------------------
(* MemorizedFunc: the pipeline.  Handles run with verbose <= 10, so the    *)
(* informational messages issued above that level are absent.              *)

\* A call of the function whose output is dropped.
func_returned_nothing(w, r) == [w EXCEPT !.ran = @ + r.ran]

\* output = self.func(*args, **kwargs)
func_returned(w, r) == [w EXCEPT !.out = r.out, !.ran = @ + r.ran]

\* A call that runs the function and persists nothing.
call_without_dump(w, c, path, x) == func_returned(w, Invoke(c, x))

\* MemorizedFunc.call: run the function, persist what it returned; an
\* exception of the function leaves before dump_item.
call(w, c, path, x) ==
    IF IsRaised(Invoke(c, x).out)
    THEN func_returned(w, Invoke(c, x))
    ELSE dump_item(func_returned(w, Invoke(c, x)), path, Invoke(c, x).out)

\* The metadata _persist_input builds.
input_metadata(c, duration, x) ==
    [duration |-> duration,
     input_args |-> [k \in DOMAIN filter_args(c, ignore(c), x) |->
                       repr(filter_args(c, ignore(c), x)[k])]]

\* A _persist_input that builds the metadata and stores nothing.
persist_input_without_store(w, c, duration, path, x) ==
    [w EXCEPT !.metadata = <<input_metadata(c, duration, x)>>]

\* MemorizedFunc._persist_input
persist_input(w, c, duration, path, x) ==
    [store_metadata(w, path, input_metadata(c, duration, x))
       EXCEPT !.metadata = <<input_metadata(c, duration, x)>>]

\* A computation that returns the raw output whatever mmap_mode is.
reload_output_skipped(w, path, mode) == w

\* MemorizedFunc._load_item after the computation: with mmap_mode set the
\* output is read back from the store; a failure of that load is not caught.
reload_output(w, path, mode) ==
    IF mode = "none" THEN w
    ELSE IF load_item_fails(w, path)
    THEN [Logged(w, "load_item") EXCEPT !.out = Raised("LoadError")]
    ELSE [touched(Logged(w, "load_item"), path)
            EXCEPT !.out = load_item(w, path, mode)]

\* A tail that persists the inputs whatever the function did.
compute_and_persist_always(w, c, path, x, mode, duration) ==
    [persist_input(call(w, c, path, x), c, duration, path, x)
       EXCEPT !.out = call(w, c, path, x).out]

\* The tail of _cached_call: compute, persist the inputs, re-load; an
\* exception of self.call leaves _cached_call at once.
compute_and_persist(w, c, path, x, mode, duration) ==
    IF IsRaised(call(w, c, path, x).out)
    THEN call(w, c, path, x)
    ELSE reload_output(
           persist_input(call(w, c, path, x), c, duration, path, x),
           path, mode)

\* An except branch that swallows the failure without a warning.
load_failed_silently(w) == Logged(w, "load_item")

\* The except branch of _cached_call: the load failed.
load_failed(w) ==
    Warned(Logged(w, "load_item"), "Exception while loading results")

\* The try block of _cached_call: the load succeeded.
loaded(w, path, mode) ==
    [touched(Logged(w, "load_item"), path)
       EXCEPT !.out = load_item(w, path, mode)]

\* A lookup that loads the artifact in shelving mode too.
lookup_loading_always(w, c, path, x, shelving, mode, duration) ==
    IF ~load_item_fails(w, path) THEN loaded(w, path, mode)
    ELSE compute_and_persist(load_failed(w), c, path, x, mode, duration)

\* _cached_call once the change check has matched and the item is present.
lookup(w, c, path, x, shelving, mode, duration) ==
    IF shelving THEN w
    ELSE IF ~load_item_fails(w, path) THEN loaded(w, path, mode)
    ELSE compute_and_persist(load_failed(w), c, path, x, mode, duration)

\* A lookup that consults the store whatever the change check returned.
lookup_or_compute_unchecked(w, c, path, x, shelving, mode, duration) ==
    IF ~contains_item(w, path)
    THEN compute_and_persist(Logged(w, "contains_item"), c, path, x, mode,
                             duration)
    ELSE lookup(Logged(w, "contains_item"), c, path, x, shelving, mode,
                duration)

\* _cached_call after the change check: w.ok is what the check returned.
lookup_or_compute(w, c, path, x, shelving, mode, duration) ==
    IF ~w.ok
    THEN compute_and_persist(w, c, path, x, mode, duration)
    ELSE IF ~contains_item(w, path)
    THEN compute_and_persist(Logged(w, "contains_item"), c, path, x, mode,
                             duration)
    ELSE lookup(Logged(w, "contains_item"), c, path, x, shelving, mode,
                duration)

\* out = metadata = None and the identifiers of the call.
call_started(w, path) ==
    [w EXCEPT !.out = None, !.metadata = <<>>, !.args_id = path[2]]

\* MemorizedFunc._cached_call
cached_call(w, c, x, shelving, mode, duration) ==
    lookup_or_compute(
      check_previous_func_code(
        call_started(w, get_output_identifiers(c, x)), c),
      c, get_output_identifiers(c, x), x, shelving, mode, duration)

\* _cached_call up to "out = self.call(...)", one statement group at a time,
\* for calls that interleave with other users of the store.  must_compute:
\* the presence check or the load did not return; looked_up: the frame
\* after the presence check and the load attempt.
must_compute(w, path, shelving) ==
    \/ ~w.ok
    \/ ~contains_item(w, path)
    \/ (~shelving /\ load_item_fails(w, path))

looked_up(w, path, shelving, mode) ==
    IF ~w.ok THEN w
    ELSE IF ~contains_item(w, path) \/ shelving
    THEN Logged(w, "contains_item")
    ELSE IF load_item_fails(w, path)
    THEN load_failed(Logged(w, "contains_item"))
    ELSE loaded(Logged(w, "contains_item"), path, mode)

\* A reference whose duration is 0 when the metadata has none.
MemorizedResult_default_duration(w, func_id, args_id, metadata) ==
    [Logged(w, "get_metadata") EXCEPT !.ref =
       [path |-> <<func_id, args_id>>,
        metadata |-> get_metadata(w, <<func_id, args_id>>),
        duration |-> <<0>>]]

\* MemorizedResult.__init__: the reference [path, metadata, duration];
\* duration is <<>> for None.
MemorizedResult(w, func_id, args_id, metadata) ==
    IF metadata # <<>>
    THEN [w EXCEPT !.ref =
            [path |-> <<func_id, args_id>>, metadata |-> metadata[1],
             duration |-> IF "duration" \in DOMAIN metadata[1]
                          THEN <<metadata[1].duration>> ELSE <<>>]]
    ELSE [Logged(w, "get_metadata") EXCEPT !.ref =
            [path |-> <<func_id, args_id>>,
             metadata |-> get_metadata(w, <<func_id, args_id>>),
             duration |->
               IF "duration" \in DOMAIN get_metadata(w, <<func_id, args_id>>)
               THEN <<get_metadata(w, <<func_id, args_id>>).duration>>
               ELSE <<>>]]

\* MemorizedResult.get: the loaded value, or KeyError.
MemorizedResult_get(w, ref, mode) ==
    IF load_item_fails(w, ref.path)
    THEN [Logged(w, "load_item") EXCEPT !.out = Raised("KeyError")]
    ELSE [touched(Logged(w, "load_item"), ref.path)
            EXCEPT !.out = load_item(w, ref.path, mode)]

\* A reference that names the artifact of another argument.
shelved_other_args(w, c) ==
    [MemorizedResult(w, build_func_identifier(c), hash([l |-> 0]),
                     w.metadata)
       EXCEPT !.out = None]

\* The return statement of call_and_shelve; it is not reached when
\* _cached_call raised.
shelved(w, c) ==
    IF IsRaised(w.out) THEN w
    ELSE [MemorizedResult(w, build_func_identifier(c), w.args_id, w.metadata)
            EXCEPT !.out = None]

\* MemorizedFunc.call_and_shelve
call_and_shelve(w, c, x, mode, duration) ==
    shelved(cached_call(w, c, x, TRUE, mode, duration), c)

\* MemorizedFunc.__call__
MemorizedFunc_call(w, c, x, mode, duration) ==
    cached_call(w, c, x, FALSE, mode, duration)

\* MemorizedFunc.__init__: creates the container of the function.
MemorizedFunc_init(w, c) ==
    store_cached_func_code(w, build_func_identifier(c), <<>>)

-----------------------------------------------------------------------------
(* NotMemorizedFunc and Memory *)

\* NotMemorizedFunc.__call__
NotMemorizedFunc_call(w, c, x) == func_returned(w, Invoke(c, x))

\* NotMemorizedResult.__init__
NotMemorizedResult(value) == [value |-> value, valid |-> TRUE]

\* NotMemorizedResult.get
NotMemorizedResult_get(w, ref) ==
    [w EXCEPT !.out = IF ref.valid THEN ref.value ELSE Raised("KeyError")]

\* A clear() that drops the value and leaves the reference valid.
NotMemorizedResult_clear_keeping_valid(ref) == [ref EXCEPT !.value = None]

\* NotMemorizedResult.clear
NotMemorizedResult_clear(ref) == [ref EXCEPT !.valid = FALSE, !.value = None]

\* NotMemorizedFunc.call_and_shelve
NotMemorizedFunc_call_and_shelve(w, c, x) ==
    IF IsRaised(Invoke(c, x).out) THEN func_returned(w, Invoke(c, x))
    ELSE [w EXCEPT !.ref = NotMemorizedResult(Invoke(c, x).out),
                   !.ran = @ + Invoke(c, x).ran]

\* The two Memory contexts: one with a store, one with location=None.
Memories == {"cached", "transparent"}

store_backend_is_none(m) == m = "transparent"

\* A Memory.cache that wraps in a MemorizedFunc whatever the store is.
Memory_cache_always_stores(m, c) == "MemorizedFunc"

\* Memory.cache: the class of the handle it returns.
Memory_cache(m, c) ==
    IF store_backend_is_none(m) THEN "NotMemorizedFunc" ELSE "MemorizedFunc"

\* memory.cache(f): a MemorizedFunc is constructed, or a NotMemorizedFunc.
handle_init(m, w, c) ==
    IF Memory_cache(m, c) = "NotMemorizedFunc" THEN w
    ELSE MemorizedFunc_init(w, c)

\* cached_f(x) through the handle Memory.cache gives.
handle_call(m, w, c, x, mode, duration) ==
    IF Memory_cache(m, c) = "NotMemorizedFunc"
    THEN NotMemorizedFunc_call(w, c, x)
    ELSE MemorizedFunc_call(w, c, x, mode, duration)

\* cached_f.call_and_shelve(x) through the handle Memory.cache gives.
handle_call_and_shelve(m, w, c, x, mode, duration) ==
    IF Memory_cache(m, c) = "NotMemorizedFunc"
    THEN NotMemorizedFunc_call_and_shelve(w, c, x)
    ELSE call_and_shelve(w, c, x, mode, duration)

\* cached_f.clear(): NotMemorizedFunc.clear does nothing.
handle_clear(m, w, c) ==
    IF Memory_cache(m, c) = "NotMemorizedFunc" THEN w ELSE clear(w, c)

\* An eval that calls the function whatever the store is.
Memory_eval_uncached(m, w, c, x, mode, duration) ==
    func_returned(w, Invoke(c, x))

\* Memory.eval: func(*args) without a store, else a fresh handle, called.
Memory_eval(m, w, c, x, mode, duration) ==
    IF store_backend_is_none(m)
    THEN func_returned(w, Invoke(c, x))
    ELSE handle_call(m, handle_init(m, w, c), c, x, mode, duration)

\* Memory.clear
Memory_clear(m, w) ==
    IF store_backend_is_none(m) THEN w ELSE clear_store(w)

\* A reduce_size that asks the backend for nothing.
Memory_reduce_size_skipped(m, w, bytes_limit) == w

\* Memory.reduce_size; bytes_limit is <<>> for None, <<B>> for B bytes.
Memory_reduce_size(m, w, bytes_limit) ==
    IF bytes_limit # <<>> /\ ~store_backend_is_none(m)
    THEN reduce_store_size(w, bytes_limit[1])
    ELSE w

\* ref.get() on what call_and_shelve returned.
handle_get(m, w, ref, mode) ==
    IF store_backend_is_none(m)
    THEN NotMemorizedResult_get(w, ref)
    ELSE MemorizedResult_get(w, ref, mode)

-----------------------------------------------------------------------------
(* AsyncMemorizedFunc: the handle of a coroutine function.  A task that    *)
(* calls it runs the synchronous pipeline and is then suspended in         *)
(* "await out" when the pipeline returned a coroutine object.              *)

\* AsyncMemorizedFunc.__call__ up to its await: super().__call__().
AsyncMemorizedFunc_call(w, c, x, mode, duration) ==
    MemorizedFunc_call(w, c, x, mode, duration)

\* AsyncMemorizedFunc.call_and_shelve: super().call_and_shelve() returns a
\* MemorizedResult, which is no coroutine, so nothing is awaited.
AsyncMemorizedFunc_call_and_shelve(w, c, x, mode, duration) ==
    call_and_shelve(w, c, x, mode, duration)

\* asyncio.iscoroutine(out)
iscoroutine(out) == out.kind = "coro"

\* out = await out: the body of the coroutine runs to its end.
await_coroutine(w, co) ==
    [w EXCEPT !.out = Raw(Body(co.src, co.v)), !.ran = @ + 1]

-----------------------------------------------------------------------------
(* State machine *)

Paths ==
    UNION {{get_output_identifiers(c, x) : x \in ArgsOf(c)} : c \in Funcs}

\* The frame a handler starts from: the current store and identity cache,
\* nothing logged, no locals set.
World ==
    [code |-> store_code, items |-> store_items, meta |-> store_meta,
     access |-> store_access, hashes |-> FUNCTION_HASHES,
     ops |-> <<>>, dumped |-> <<>>, warns |-> <<>>, ok |-> FALSE,
     out |-> None, args_id |-> "", metadata |-> <<>>, ran |-> 0,
     ref |-> <<>>]

\* The locals of a frame, without the shared store and identity cache.
Locals(w) ==
    [w EXCEPT !.code = <<>>, !.items = <<>>, !.meta = <<>>, !.access = <<>>,
              !.hashes = <<>>]

\* No call in progress.
NotRunning == [c |-> "", x |-> 0, duration |-> 0, w |-> Locals(World)]

Commit(w) ==
    /\ store_code' = w.code
    /\ store_items' = w.items
    /\ store_meta' = w.meta
    /\ store_access' = w.access
    /\ FUNCTION_HASHES' = w.hashes

\* The record of one finished operation: what it was, what it returned
\* (out, ref), what it did (ran, ops, dumped, warns), and the name of the
\* operation before it (prev).
Observed(op, m, c, x, w) ==
    [op |-> op, m |-> m, c |-> c, x |-> x, ran |-> w.ran, out |-> w.out,
     ops |-> w.ops, dumped |-> w.dumped, warns |-> w.warns, ref |-> w.ref,
     prev |-> last.op]

Min(a, b) == IF a <= b THEN a ELSE b

\* The accumulator of the tests, counted per cache path (and saturating).
Counted(acc, m, path, ran) ==
    IF store_backend_is_none(m) THEN acc
    ELSE [acc EXCEPT ![path] = Min(@ + ran, MaxRuns)]

Forgotten(acc, m, S) ==
    IF store_backend_is_none(m) THEN acc
    ELSE [p \in Paths |-> IF p \in S THEN 0 ELSE acc[p]]

PathsOf(c) == {p \in Paths : p[1] = build_func_identifier(c)}

\* An empty store and the handles of the callables of S, c among them.
InitLive(S, c) ==
    /\ store_code = <<>>
    /\ store_items = <<>>
    /\ store_meta = <<>>
    /\ store_access = <<>>
    /\ FUNCTION_HASHES = <<>>
    /\ live = S
    /\ definitions = S
    /\ mmap_mode \in {"none", "r"}
    /\ accumulator = [p \in Paths |-> 0]
    /\ pc = [t \in Tasks |-> "idle"]
    /\ awaited = [t \in Tasks |-> None]
    /\ running = [t \in Tasks |-> NotRunning]
    /\ last = [op |-> "init", m |-> "cached", c |-> c, x |-> NoArgs(c),
               ran |-> 0,
               out |-> None, ops |-> <<>>, dumped |-> <<>>, warns |-> <<>>,
               ref |-> <<>>, prev |-> "none"]

InitOf(c) == InitLive({c}, c)

\* A Memory and the handle of the plain function f, nothing stored yet.
Init == InitOf("f1")

\* value = cached_f(x), f a plain function
Call(m, c, x, duration) ==
    /\ \E r \in {handle_call(m, World, c, x, mmap_mode, duration)} :
         /\ Commit(r)
         /\ accumulator' =
              Counted(accumulator, m, get_output_identifiers(c, x), r.ran)
         /\ last' = Observed("call", m, c, x, r)
    /\ UNCHANGED <<live, definitions, mmap_mode, running, pc, awaited>>

\* value = memory.eval(f, x)
Eval(m, c, x, duration) ==
    /\ \E r \in {Memory_eval(m, World, c, x, mmap_mode, duration)} :
         /\ Commit(r)
         /\ accumulator' =
              Counted(accumulator, m, get_output_identifiers(c, x), r.ran)
         /\ last' = Observed("eval", m, c, x, r)
    /\ UNCHANGED <<live, definitions, mmap_mode, running, pc, awaited>>

\* ref = cached_f.call_and_shelve(x)
CallAndShelve(m, c, x, duration) ==
    /\ \E r \in {handle_call_and_shelve(m, World, c, x, mmap_mode, duration)} :
         /\ Commit(r)
         /\ accumulator' =
              Counted(accumulator, m, get_output_identifiers(c, x), r.ran)
         /\ last' = Observed("call_and_shelve", m, c, x, r)
    /\ UNCHANGED <<live, definitions, mmap_mode, running, pc, awaited>>

\* ref.get() on the reference just returned by call_and_shelve
Get ==
    /\ last.op = "call_and_shelve"
    /\ \E r \in {handle_get(last.m, [World EXCEPT !.ref = last.ref],
                            last.ref, mmap_mode)} :
         /\ Commit(r)
         /\ last' = Observed("get", last.m, last.c, last.x, r)
    /\ UNCHANGED <<live, definitions, mmap_mode, running, accumulator, pc,
                   awaited>>

\* cached_f.clear()
Clear(m, c) ==
    /\ \E r \in {handle_clear(m, World, c)} :
         /\ Commit(r)
         /\ last' = Observed("clear", m, c, NoArgs(c), r)
    /\ accumulator' = Forgotten(accumulator, m, PathsOf(c))
    /\ UNCHANGED <<live, definitions, mmap_mode, running, pc, awaited>>

\* memory.clear()
MemoryClear(m) ==
    /\ \E r \in {Memory_clear(m, World)} :
         /\ Commit(r)
         /\ last' = Observed("memory_clear", m, last.c, NoArgs(last.c), r)
    /\ accumulator' = Forgotten(accumulator, m, Paths)
    /\ UNCHANGED <<live, definitions, mmap_mode, running, pc, awaited>>

\* memory.reduce_size() of a Memory made with the given bytes_limit
ReduceSize(m, bytes_limit) ==
    /\ \E r \in {Memory_reduce_size(m, World, bytes_limit)} :
         /\ Commit(r)
         /\ accumulator' = Forgotten(accumulator, m,
                                     DOMAIN store_items \ DOMAIN r.items)
         /\ last' = [Observed("reduce_size", m, last.c, NoArgs(last.c), r)
                       EXCEPT !.ref = bytes_limit]
    /\ UNCHANGED <<live, definitions, mmap_mode, running, pc, awaited>>

\* The weak identity cache once the callable old has died.
Collected(w, old) ==
    [w EXCEPT !.hashes = [g \in DOMAIN @ \ {old} |-> @[g]]]

\* f is rebound to another definition and wrapped again: the old function
\* object dies, and with it its entry of the weak identity cache.
Redefine(m, old, new) ==
    /\ old \in live
    /\ new \notin live
    /\ build_func_identifier(old) = build_func_identifier(new)
    /\ \E r \in {handle_init(m, Collected(World, old), new)} :
         /\ Commit(r)
         /\ last' = Observed("redefine", m, new, NoArgs(new), r)
    /\ live' = (live \ {old}) \cup {new}
    /\ definitions' = definitions \cup {new}
    /\ accumulator' = Forgotten(accumulator, m, PathsOf(new))
    /\ UNCHANGED <<mmap_mode, running, pc, awaited>>

\* The stored artifact of a path is damaged (its file is overwritten).
Corrupt(path) ==
    /\ path \in DOMAIN store_items
    /\ store_items[path].readable
    /\ store_items' = [store_items EXCEPT ![path].readable = FALSE]
    /\ accumulator' = Forgotten(accumulator, "cached", {path})
    /\ last' = [Observed("corrupt", "cached", last.c, NoArgs(last.c), World)
                  EXCEPT !.ref = path]
    /\ UNCHANGED <<store_code, store_meta, store_access, FUNCTION_HASHES, live,
                   definitions, mmap_mode, running, pc, awaited>>

\* The frame of the call task t is running, on the store as it is now.
Frame(t) ==
    [running[t].w EXCEPT !.code = store_code, !.items = store_items,
                         !.meta = store_meta, !.access = store_access,
                         !.hashes = FUNCTION_HASHES]

\* Task t goes on to the statement named at, with the locals of frame r.
Proceeds(t, at, r) ==
    /\ pc' = [pc EXCEPT ![t] = at]
    /\ running' = [running EXCEPT ![t].w = Locals(r)]
    /\ UNCHANGED last

\* The call of task t returns (or raises) what frame r holds.
Returns(t, c, x, r) ==
    /\ pc' = [pc EXCEPT ![t] = "idle"]
    /\ running' = [running EXCEPT ![t] = NotRunning]
    /\ last' = Observed("call", "cached", c, x, r)

\* Task t calls cached_f(x): the change check, the presence check and the
\* load; the call returns the loaded value or goes on to compute.
Begin(t, c, x, duration) ==
    /\ pc[t] = "idle"
    /\ \E k \in {check_previous_func_code(
                    call_started(World, get_output_identifiers(c, x)), c)} :
       \E r \in {looked_up(k, get_output_identifiers(c, x), FALSE,
                           mmap_mode)} :
         /\ Commit(r)
         /\ IF must_compute(k, get_output_identifiers(c, x), FALSE)
            THEN /\ pc' = [pc EXCEPT ![t] = "compute"]
                 /\ running' = [running EXCEPT ![t] =
                                  [c |-> c, x |-> x, duration |-> duration,
                                   w |-> Locals(r)]]
                 /\ UNCHANGED last
            ELSE Returns(t, c, x, r)
    /\ UNCHANGED <<live, definitions, mmap_mode, accumulator, awaited>>

\* output = self.func(*args, **kwargs) in MemorizedFunc.call
Compute(t) ==
    /\ pc[t] = "compute"
    /\ \E r \in {func_returned(Frame(t),
                                Invoke(running[t].c, running[t].x))} :
         /\ accumulator' =
              Counted(accumulator, "cached",
                      get_output_identifiers(running[t].c, running[t].x),
                      r.ran - running[t].w.ran)
         /\ IF IsRaised(r.out)
            THEN Returns(t, running[t].c, running[t].x, r)
            ELSE Proceeds(t, "dump", r)
    /\ UNCHANGED <<store_code, store_items, store_meta, store_access,
                   FUNCTION_HASHES, live,
                   definitions, mmap_mode, awaited>>

\* self.store_backend.dump_item(path, output) in MemorizedFunc.call
Dump(t) ==
    /\ pc[t] = "dump"
    /\ \E r \in {dump_item(Frame(t),
                            get_output_identifiers(running[t].c, running[t].x),
                            running[t].w.out)} :
         /\ Commit(r)
         /\ Proceeds(t, "persist", r)
    /\ UNCHANGED <<live, definitions, mmap_mode, accumulator, awaited>>

\* metadata = self._persist_input(duration, path, args, kwargs)
Persist(t) ==
    /\ pc[t] = "persist"
    /\ \E r \in {persist_input(Frame(t), running[t].c, running[t].duration,
                                get_output_identifiers(running[t].c,
                                                       running[t].x),
                                running[t].x)} :
         /\ Commit(r)
         /\ Proceeds(t, "return", r)
    /\ UNCHANGED <<live, definitions, mmap_mode, accumulator, awaited>>

\* The re-load when mmap_mode is set, and the return of _cached_call.
Return(t) ==
    /\ pc[t] = "return"
    /\ \E r \in {reload_output(Frame(t),
                                get_output_identifiers(running[t].c,
                                                       running[t].x),
                                mmap_mode)} :
         /\ Commit(r)
         /\ Returns(t, running[t].c, running[t].x, r)
    /\ UNCHANGED <<live, definitions, mmap_mode, accumulator, awaited>>

\* The call of task t stops after dump_item and before _persist_input (the
\* process is killed or interrupted): the rest of the call does not run.
Interrupted(t) ==
    /\ pc[t] = "persist"
    /\ pc' = [pc EXCEPT ![t] = "idle"]
    /\ running' = [running EXCEPT ![t] = NotRunning]
    /\ last' = [Observed("interrupted", "cached", running[t].c, running[t].x,
                         World)
                  EXCEPT !.out = Raised("KeyboardInterrupt")]
    /\ UNCHANGED <<store_code, store_items, store_meta, store_access,
                   FUNCTION_HASHES, live, definitions, mmap_mode, accumulator,
                   awaited>>

\* The root directory of the store is deleted from outside (shutil.rmtree)
\* while the Memory and its handles are live.
RootDeleted ==
    /\ store_code' = <<>>
    /\ store_items' = <<>>
    /\ store_meta' = <<>>
    /\ store_access' = <<>>
    /\ accumulator' = Forgotten(accumulator, "cached", Paths)
    /\ last' = Observed("root_deleted", "cached", last.c, NoArgs(last.c),
                         World)
    /\ UNCHANGED <<FUNCTION_HASHES, live, definitions, mmap_mode, running,
                   pc, awaited>>

\* A fresh process opens the same store: its identity cache is empty, and
\* Memory.cache makes the handles again (which creates the container of
\* each function and writes no source).
FreshProcess ==
    /\ \E r \in {handle_init("cached", [World EXCEPT !.hashes = <<>>],
                              last.c)} :
         /\ Commit(r)
         /\ last' = Observed("fresh_process", "cached", last.c,
                             NoArgs(last.c), r)
    /\ accumulator' = Forgotten(accumulator, "cached", Paths)
    /\ UNCHANGED <<live, definitions, mmap_mode, running, pc, awaited>>

\* value = await cached_f(x): the part that runs before the await.
AsyncCall(t, c, x, duration) ==
    /\ pc[t] = "idle"
    /\ \E r \in {AsyncMemorizedFunc_call(World, c, x, mmap_mode, duration)} :
         /\ Commit(r)
         /\ accumulator' = Counted(accumulator, "cached",
                                   get_output_identifiers(c, x), r.ran)
         /\ IF iscoroutine(r.out)
            THEN /\ pc' = [pc EXCEPT ![t] = "awaiting"]
                 /\ awaited' = [awaited EXCEPT ![t] = r.out]
            ELSE UNCHANGED <<pc, awaited>>
         /\ last' = Observed("async_call", "cached", c, x, r)
    /\ UNCHANGED <<live, definitions, mmap_mode, running>>

\* The awaited coroutine runs its body to the end and the await returns.
AsyncResume(t) ==
    /\ pc[t] = "awaiting"
    /\ \E r \in {await_coroutine(World, awaited[t])} :
         /\ accumulator' =
              Counted(accumulator, "cached",
                      get_output_identifiers(awaited[t].src, awaited[t].v),
                      r.ran)
         /\ last' = Observed("await", "cached", awaited[t].src, awaited[t].v, r)
    /\ pc' = [pc EXCEPT ![t] = "idle"]
    /\ awaited' = [awaited EXCEPT ![t] = None]
    /\ UNCHANGED <<store_code, store_items, store_meta, store_access,
                   FUNCTION_HASHES, live,
                   definitions, mmap_mode, running>>

\* The task is cancelled while it is suspended in the wrapped coroutine:
\* CancelledError leaves the await and the body does not run to its end.
Cancel(t) ==
    /\ pc[t] = "awaiting"
    /\ last' = [Observed("cancel", "cached", awaited[t].src, awaited[t].v,
                         World)
                  EXCEPT !.out = Raised("CancelledError")]
    /\ pc' = [pc EXCEPT ![t] = "idle"]
    /\ awaited' = [awaited EXCEPT ![t] = None]
    /\ UNCHANGED <<store_code, store_items, store_meta, store_access,
                   FUNCTION_HASHES, live,
                   definitions, mmap_mode, running, accumulator>>

\* ref = await cached_f.call_and_shelve(x)
AsyncCallAndShelve(t, c, x, duration) ==
    /\ pc[t] = "idle"
    /\ \E r \in {AsyncMemorizedFunc_call_and_shelve(World, c, x, mmap_mode,
                                                    duration)} :
         /\ Commit(r)
         /\ accumulator' = Counted(accumulator, "cached",
                                   get_output_identifiers(c, x), r.ran)
         /\ last' = Observed("async_call_and_shelve", "cached", c, x, r)
    /\ UNCHANGED <<live, definitions, mmap_mode, running, pc, awaited>>

-----------------------------------------------------------------------------
(* Specifications *)

\* The handles of a Memory with a store, wrapping a plain function.
Next ==
    \/ \E c \in live, x \in ArgValues, d \in Durations :
          Call("cached", c, x, d)
    \/ \E c \in live, x \in ArgValues, d \in Durations :
          Eval("cached", c, x, d)
    \/ \E c \in live, x \in ArgValues, d \in Durations :
          CallAndShelve("cached", c, x, d)
    \/ Get
    \/ \E c \in live : Clear("cached", c)
    \/ MemoryClear("cached")
    \/ \E old \in SyncFuncs, new \in SyncFuncs : Redefine("cached", old, new)
    \/ \E path \in Paths : Corrupt(path)

Spec == Init /\ [][Next]_vars

\* The handles of a Memory with location=None.
NextNoCache ==
    \/ \E c \in live, x \in ArgValues, d \in Durations :
          Call("transparent", c, x, d)
    \/ \E c \in live, x \in ArgValues, d \in Durations :
          Eval("transparent", c, x, d)
    \/ \E c \in live, x \in ArgValues, d \in Durations :
          CallAndShelve("transparent", c, x, d)
    \/ Get
    \/ \E c \in live : Clear("transparent", c)
    \/ MemoryClear("transparent")
    \/ \E old \in SyncFuncs, new \in SyncFuncs :
          Redefine("transparent", old, new)

SpecNoCache == Init /\ [][NextNoCache]_vars

\* Tasks of one event loop awaiting the handle of a coroutine function.
InitAsync == InitOf("co")

NextAsync ==
    \/ \E t \in Tasks, c \in live, x \in ArgValues, d \in Durations :
          AsyncCall(t, c, x, d)
    \/ \E t \in Tasks : AsyncResume(t)
    \/ \E t \in Tasks : Cancel(t)
    \/ \E t \in Tasks, c \in live, x \in ArgValues, d \in Durations :
          AsyncCallAndShelve(t, c, x, d)
    \/ \E c \in live : Clear("cached", c)
    \/ \E path \in Paths : Corrupt(path)

SpecAsync == InitAsync /\ [][NextAsync]_vars

\* A Memory with a store and the handle of a function that may raise,
\* with faults of the store: damaged artifacts and a deleted root.
InitFaults == InitOf("fr")

NextFaults ==
    \/ \E c \in live, x \in ArgValues, d \in Durations :
          Call("cached", c, x, d)
    \/ \E c \in live, x \in ArgValues, d \in Durations :
          Eval("cached", c, x, d)
    \/ \E c \in live, x \in ArgValues, d \in Durations :
          CallAndShelve("cached", c, x, d)
    \/ \E c \in live : Clear("cached", c)
    \/ RootDeleted
    \/ \E path \in Paths : Corrupt(path)

SpecFaults == InitFaults /\ [][NextFaults]_vars

\* One function called and cleared, the store flushed or deleted from
\* outside, and the program started again on the same store.
NextRestart ==
    \/ \E c \in live, x \in ArgValues, d \in Durations :
          Call("cached", c, x, d)
    \/ \E c \in live : Clear("cached", c)
    \/ MemoryClear("cached")
    \/ RootDeleted
    \/ FreshProcess

SpecRestart == Init /\ [][NextRestart]_vars

\* Two tasks (or processes sharing the store) run the pipeline of the same
\* handle, interleaved statement by statement, with no lock.
NextConcurrent ==
    \/ \E t \in Tasks, c \in live, x \in ArgValues, d \in Durations :
          Begin(t, c, x, d)
    \/ \E t \in Tasks : Compute(t)
    \/ \E t \in Tasks : Dump(t)
    \/ \E t \in Tasks : Persist(t)
    \/ \E t \in Tasks : Return(t)

SpecConcurrent == Init /\ [][NextConcurrent]_vars

\* Calls in progress on a store whose artifacts are damaged from outside
\* at any moment, also between the statements of a call.
NextInterference ==
    \/ \E t \in Tasks, c \in live, x \in ArgValues, d \in Durations :
          Begin(t, c, x, d)
    \/ \E t \in Tasks : Compute(t)
    \/ \E t \in Tasks : Dump(t)
    \/ \E t \in Tasks : Persist(t)
    \/ \E t \in Tasks : Return(t)
    \/ \E path \in Paths : Corrupt(path)

SpecInterference == Init /\ [][NextInterference]_vars

\* Two live handles of one Memory wrap two function objects that have the
\* same func_id and different source (f and a later definition of f).
InitCollision == InitLive(SyncFuncs, "f1")

NextCollision ==
    \/ \E c \in live, x \in ArgValues, d \in Durations :
          Call("cached", c, x, d)
    \/ \E c \in live, x \in ArgValues, d \in Durations :
          CallAndShelve("cached", c, x, d)
    \/ Get
    \/ \E c \in live : Clear("cached", c)
    \/ MemoryClear("cached")

SpecCollision == InitCollision /\ [][NextCollision]_vars

\* The handles of the function b of module a and of the function c of
\* module a.b: the func_id of the first is a prefix of that of the second.
InitNested == InitLive({"ab", "abc"}, "ab")

NextNested ==
    \/ \E c \in live, x \in ArgValues, d \in Durations :
          Call("cached", c, x, d)
    \/ \E c \in live : Clear("cached", c)
    \/ \E old \in NestedFuncs, new \in NestedFuncs :
          Redefine("cached", old, new)

SpecNested == InitNested /\ [][NextNested]_vars

\* Two live handles wrap the two lambdas of module m: one func_id.
InitLambda == InitLive(LambdaFuncs, "la")

NextLambda ==
    \/ \E c \in live, x \in ArgValues, d \in Durations :
          Call("cached", c, x, d)
    \/ \E c \in live, x \in ArgValues, d \in Durations :
          CallAndShelve("cached", c, x, d)
    \/ Get
    \/ \E c \in live : Clear("cached", c)

SpecLambda == InitLambda /\ [][NextLambda]_vars

\* duration = time.time() - start_time: the time the computation of a task
\* takes; no two computations take the same time.
Elapsed(t) == IF t = "t1" THEN 1 ELSE 2

\* Concurrent calls whose computations take different times.
NextRace ==
    \/ \E t \in Tasks, c \in live, x \in ArgValues :
          Begin(t, c, x, Elapsed(t))
    \/ \E t \in Tasks : Compute(t)
    \/ \E t \in Tasks : Dump(t)
    \/ \E t \in Tasks : Persist(t)
    \/ \E t \in Tasks : Return(t)

SpecRace == Init /\ [][NextRace]_vars

\* Calls that can stop between dump_item and store_metadata, and the
\* operations made afterwards.
NextInterrupted ==
    \/ \E t \in Tasks, c \in live, x \in ArgValues, d \in Durations :
          Begin(t, c, x, d)
    \/ \E t \in Tasks : Compute(t)
    \/ \E t \in Tasks : Dump(t)
    \/ \E t \in Tasks : Persist(t)
    \/ \E t \in Tasks : Return(t)
    \/ \E t \in Tasks : Interrupted(t)
    \/ \E c \in live, x \in ArgValues, d \in Durations :
          CallAndShelve("cached", c, x, d)
    \/ Get

SpecInterrupted == Init /\ [][NextInterrupted]_vars

\* A no-cache reference is held: the one call_and_shelve returned, as get()
\* and clear() have left it since.
HoldsReference == last.m = "transparent" /\ last.ref # <<>>

\* ref.get() on the no-cache reference the program holds
RefGet ==
    /\ HoldsReference
    /\ \E r \in {NotMemorizedResult_get([World EXCEPT !.ref = last.ref],
                                        last.ref)} :
         /\ Commit(r)
         /\ last' = Observed("get", last.m, last.c, last.x, r)
    /\ UNCHANGED <<live, definitions, mmap_mode, running, accumulator, pc,
                   awaited>>

\* ref.clear() on the no-cache reference the program holds
RefClear ==
    /\ HoldsReference
    /\ last' = Observed("ref_clear", last.m, last.c, last.x,
                        [World EXCEPT
                           !.ref = NotMemorizedResult_clear(last.ref)])
    /\ UNCHANGED <<store_code, store_items, store_meta, store_access,
                   FUNCTION_HASHES, live, definitions, mmap_mode, running,
                   accumulator, pc, awaited>>

\* value = f(x) on the transparent handle while the reference is held
HeldCall(c, x, duration) ==
    /\ HoldsReference
    /\ \E r \in {handle_call("transparent", World, c, x, mmap_mode,
                               duration)} :
         /\ Commit(r)
         /\ last' = [Observed("call", "transparent", c, x, r)
                       EXCEPT !.ref = last.ref]
    /\ UNCHANGED <<live, definitions, mmap_mode, running, accumulator, pc,
                   awaited>>

\* A transparent Memory, the handles of two functions, and the reference
\* of the latest call_and_shelve.
InitReference == InitLive(SyncFuncs, "f1")

NextReference ==
    \/ \E c \in live, x \in ArgValues, d \in Durations :
          CallAndShelve("transparent", c, x, d)
    \/ \E c \in live, x \in ArgValues, d \in Durations : HeldCall(c, x, d)
    \/ RefGet
    \/ RefClear

SpecReference == InitReference /\ [][NextReference]_vars

\* The values of Memory.bytes_limit: None or a number of bytes.
ByteLimits == {<<>>} \cup {<<b>> : b \in 0..MaxBytes}

\* Memory objects with and without a byte ceiling on one store.
NextEvict ==
    \/ \E c \in live, x \in ArgValues, d \in Durations :
          Call("cached", c, x, d)
    \/ \E c \in live, x \in ArgValues, d \in Durations :
          CallAndShelve("cached", c, x, d)
    \/ Get
    \/ \E bytes_limit \in ByteLimits : ReduceSize("cached", bytes_limit)

SpecEvict == Init /\ [][NextEvict]_vars

\* A Memory with a store and a handle made with ignore=['k'].
InitIgnore == InitOf("fi")

NextIgnore ==
    \/ \E c \in live, d \in Durations :
          \E x \in ArgsOf(c) : Call("cached", c, x, d)
    \/ \E c \in live, d \in Durations :
          \E x \in ArgsOf(c) : CallAndShelve("cached", c, x, d)
    \/ Get
    \/ \E c \in live : Clear("cached", c)
    \/ \E path \in Paths : Corrupt(path)

SpecIgnore == InitIgnore /\ [][NextIgnore]_vars

-----------------------------------------------------------------------------
(* Properties *)

PathOf(c, x) == get_output_identifiers(c, x)

\* out is the value of the body of c on x, in memory or memory-mapped.
IsValueOf(out, c, x) == out.kind \in {"raw", "mmap"} /\ out.v = Body(c, x)

\* c is the only definition its name has had.
SingleDefinition(c) ==
    \A d \in definitions :
        build_func_identifier(d) = build_func_identifier(c) => d = c

EndsWithLoad(ops) == ops # <<>> /\ ops[Len(ops)] = "load_item"

\* C1: with a store, the function runs at most once per cache path as long
\* as no clear, redefinition or corruption intervenes, and a call that does
\* not run the function is served by load_item and dumps nothing.
C1_ComputeOnce ==
    /\ \A p \in Paths : accumulator[p] <= 1
    /\ (last.op \in {"call", "eval"} /\ last.ran = 0)
         => (EndsWithLoad(last.ops) /\ last.dumped = <<>>)

C1_Witness ==
    /\ last.op = "call"
    /\ last.prev = "call"
    /\ last.ran = 0
    /\ accumulator[PathOf(last.c, last.x)] = 1

\* C2: for a function that is the only definition of its name, every call of
\* the handle returns the value of the function on the argument, computed or
\* loaded, whatever calls, clears, shelvings and corruptions came before.
C2_FunctionalConsistency ==
    (last.op = "call" /\ SingleDefinition(last.c))
      => IsValueOf(last.out, last.c, last.x)

C2_Witness ==
    /\ last.op = "call"
    /\ SingleDefinition(last.c)
    /\ last.ran = 0
    /\ last.x = 1
    /\ Cardinality(DOMAIN store_items) = 2

\* C3: once f is rebound to a different source, no call of the handle
\* returns an artifact computed by the old definition: every value a call
\* returns is the value of the definition that is called.
C3_RedefinitionInvalidates ==
    last.op = "call" => IsValueOf(last.out, last.c, last.x)

\* C4: a call that finds the artifact of its path present but unreadable
\* emits exactly one warning "Exception while loading results", runs the
\* function once, stores a readable artifact and returns the recomputed
\* value; the same call right after it loads, without warning or execution.
C4_CorruptionRecovery ==
    [][ /\ ( /\ last'.op = "call"
             /\ SingleDefinition(last'.c)
             /\ PathOf(last'.c, last'.x) \in DOMAIN store_items
             /\ ~store_items[PathOf(last'.c, last'.x)].readable )
           => /\ last'.warns = <<"Exception while loading results">>
              /\ last'.ran = 1
              /\ IsValueOf(last'.out, last'.c, last'.x)
              /\ store_items'[PathOf(last'.c, last'.x)].readable
              /\ store_items'[PathOf(last'.c, last'.x)].data
                   = Body(last'.c, last'.x)
        /\ ( /\ last.op = "call"
             /\ last.warns # <<>>
             /\ last'.op = "call"
             /\ last'.c = last.c
             /\ last'.x = last.x )
           => /\ last'.ran = 0
              /\ last'.warns = <<>>
              /\ EndsWithLoad(last'.ops)
      ]_vars

C4_Witness ==
    /\ last.op = "call"
    /\ last.prev = "corrupt"
    /\ last.warns = <<"Exception while loading results">>
    /\ last.ran = 1

\* C5: get() on the reference call_and_shelve just returned gives the value
\* cached_f(x) returns in that state, provided the artifact the reference
\* names is readable (no corruption).
C5_ShelveRoundTrip ==
    [][ ( /\ last.op = "call_and_shelve"
          /\ last'.op = "get"
          /\ ~load_item_fails(World, last.ref.path) )
        => \A d \in Durations :
             /\ last'.out.kind \in {"raw", "mmap"}
             /\ last'.out =
                  handle_call(last.m, World, last.c, last.x, mmap_mode, d).out
      ]_vars

C5_Witness ==
    /\ last.op = "get"
    /\ last.prev = "call_and_shelve"
    /\ SingleDefinition(last.c)
    /\ IsValueOf(last.out, last.c, last.x)
    /\ accumulator[PathOf(last.c, last.x)] = 1

\* C6: cached_f.clear() leaves no artifact of the function; the call right
\* after it runs the function exactly once and stores the result; the same
\* call after a computing call is a cache hit.
C6_ClearSemantics ==
    [][ /\ last'.op = "clear"
           => \A p \in PathsOf(last'.c) : p \notin DOMAIN store_items'
        /\ (last.op = "clear" /\ last'.op = "call" /\ last'.c = last.c)
           => /\ last'.ran = 1
              /\ PathOf(last'.c, last'.x) \in DOMAIN store_items'
        /\ ( /\ last.op = "call"
             /\ last.ran = 1
             /\ last'.op = "call"
             /\ last'.c = last.c
             /\ last'.x = last.x )
           => (last'.ran = 0 /\ EndsWithLoad(last'.ops))
      ]_vars

C6_Witness ==
    /\ last.op = "call"
    /\ last.prev = "clear"
    /\ last.ran = 1
    /\ PathOf(last.c, last.x) \in DOMAIN store_items

\* C7: with location=None every call, call_and_shelve and eval runs the
\* function exactly once and returns its result, performs no backend
\* operation and leaves the store and the identity cache untouched.
C7_NoCacheTransparency ==
    [][ /\ (last'.m = "transparent"
             /\ last'.op \in {"call", "eval", "call_and_shelve"})
           => /\ last'.ran = 1
              /\ IF last'.op = "call_and_shelve"
                 THEN last'.ref = NotMemorizedResult(
                                    Raw(Body(last'.c, last'.x)))
                 ELSE last'.out = Raw(Body(last'.c, last'.x))
        /\ last'.m = "transparent"
           => /\ last'.ops = <<>>
              /\ last'.dumped = <<>>
              /\ UNCHANGED <<storeVars, FUNCTION_HASHES>>
      ]_vars

C7_Witness ==
    /\ last.m = "transparent"
    /\ last.op = "call_and_shelve"
    /\ last.prev = "call"
    /\ last.ran = 1

\* C8: with mmap_mode set, a call that ran the function returns what
\* load_item gives for the artifact just written: a memory-mapped value,
\* as a cache hit returns, and not the raw return value.
C8_MmapFirstCall ==
    (last.op \in {"call", "eval"} /\ last.ran = 1 /\ mmap_mode # "none")
      => /\ EndsWithLoad(last.ops)
         /\ ~load_item_fails(World, PathOf(last.c, last.x))
         /\ last.out = load_item(World, PathOf(last.c, last.x), mmap_mode)
         /\ last.out.kind = "mmap"

C8_Witness ==
    /\ last.op = "call"
    /\ last.ran = 1
    /\ mmap_mode = "r"
    /\ last.warns # <<>>
    /\ last.out.kind = "mmap"

\* C9: with a coroutine function, no coroutine object is handed to
\* dump_item and none is stored as an artifact.
C9_AwaitedValueStored ==
    /\ \A i \in DOMAIN last.dumped : last.dumped[i].kind # "coro"
    /\ \A p \in DOMAIN store_items : store_items[p].form # "coro"

\* C10: with a coroutine function the body runs at most once per cache path
\* and every await returns the value of the function.
C10_AsyncComputeOnce ==
    /\ \A p \in Paths : accumulator[p] <= 1
    /\ last.op = "await" => IsValueOf(last.out, last.c, last.x)

\* C11: when the wrapped function raises, the same exception reaches the
\* caller, the call performs neither dump_item nor store_metadata, nothing
\* is stored for its path, and every later call with the same arguments
\* runs the function again.
C11_UserErrorPersistsNothing ==
    /\ (last.op \in {"call", "eval", "call_and_shelve"}
         /\ Raises(last.c, last.x))
         => /\ last.out = Invoke(last.c, last.x).out
            /\ last.ran = 1
            /\ last.dumped = <<>>
            /\ \A i \in DOMAIN last.ops :
                 last.ops[i] \notin {"dump_item", "store_metadata"}
            /\ last.ref = <<>>
    /\ \A c \in live, x \in ArgValues :
         Raises(c, x) => /\ PathOf(c, x) \notin DOMAIN store_items
                         /\ PathOf(c, x) \notin DOMAIN store_meta

C11_Witness ==
    /\ last.op = "call"
    /\ last.prev = "call"
    /\ Raises(last.c, last.x)
    /\ IsRaised(last.out)
    /\ accumulator[PathOf(last.c, last.x)] >= 2

\* C12: a coroutine call that is cancelled while the wrapped function is
\* executing has written no artifact and no metadata: a call whose function
\* has not returned has performed neither dump_item nor store_metadata.
C12_CancelPersistsNothing ==
    [][ ( /\ last.op = "async_call"
          /\ last.ran = 0
          /\ last'.op = "cancel"
          /\ last'.c = last.c
          /\ last'.x = last.x )
        => /\ last.dumped = <<>>
           /\ \A i \in DOMAIN last.ops :
                last.ops[i] \notin {"dump_item", "store_metadata"}
      ]_vars

AllIdle == \A t \in Tasks : pc[t] = "idle"

\* Every call that has returned gave the value of the function, and once no
\* call is in progress every path the function was run for holds one
\* loadable artifact with that value, and its metadata.
ConsistentArtifacts ==
    /\ last.op = "call" => IsValueOf(last.out, last.c, last.x)
    /\ AllIdle =>
         \A c \in live, x \in ArgValues :
           accumulator[PathOf(c, x)] >= 1
             => /\ PathOf(c, x) \in DOMAIN store_items
                /\ ~load_item_fails(World, PathOf(c, x))
                /\ IsValueOf(load_item(World, PathOf(c, x), mmap_mode), c, x)
                /\ PathOf(c, x) \in DOMAIN store_meta

\* C13: two tasks running the pipeline for the same path with no lock both
\* return f(x); once both have finished the store holds one loadable
\* artifact for the path, and every later call loads it without running f.
C13_ConcurrentCompute ==
    [][ /\ ConsistentArtifacts'
        /\ \A t \in Tasks, c \in live, x \in ArgValues :
             (AllIdle /\ PathOf(c, x) \in DOMAIN store_items)
               => /\ ~(pc'[t] = "compute" /\ running'[t].c = c
                       /\ running'[t].x = x)
                  /\ (last' # last /\ last'.op = "call"
                      /\ last'.c = c /\ last'.x = x)
                       => (last'.ran = 0 /\ EndsWithLoad(last'.ops))
      ]_vars

C13_Witness ==
    /\ AllIdle
    /\ last.op = "call"
    /\ last.ran = 1
    /\ accumulator[PathOf(last.c, last.x)] >= 2
    /\ IsValueOf(last.out, last.c, last.x)
    /\ ~load_item_fails(World, PathOf(last.c, last.x))

\* C14: memory.eval(f, x) and cached_f(x) use the same store entries: of
\* two of them in a row with the same argument, one at least an eval, the
\* second does not run f and returns the value the first returned, and f
\* never runs twice for one path.
C14_EvalSharesStore ==
    [][ /\ ( /\ last.op \in {"call", "eval"}
             /\ last'.op \in {"call", "eval"}
             /\ (last.op = "eval" \/ last'.op = "eval")
             /\ last' # last
             /\ last'.c = last.c
             /\ last'.x = last.x )
           => /\ last'.ran = 0
              /\ last'.out = last.out
              /\ last'.dumped = <<>>
        /\ last'.op = "eval"
           => accumulator'[PathOf(last'.c, last'.x)] <= 1
      ]_vars

C14_Witness ==
    /\ last.op = "eval"
    /\ last.prev = "call"
    /\ last.ran = 0
    /\ IsValueOf(last.out, last.c, last.x)
    /\ accumulator[PathOf(last.c, last.x)] = 1

\* C15: two calls whose arguments differ only in a parameter named in
\* ignore have the same (func_id, args_id); in every state the call does
\* the same whatever the ignored value is: it runs the function or not,
\* performs the same backend operations, returns the same value and leaves
\* the same store; after a call, a call that differs from it only in the
\* ignored parameter is a cache hit.
C15_IgnoreFidelity ==
    [][ /\ \A c \in live, d \in Durations :
             \A x \in ArgsOf(c), y \in ArgsOf(c) :
               bound_args(c, x).l = bound_args(c, y).l
                 => /\ get_output_identifiers(c, x)
                         = get_output_identifiers(c, y)
                    /\ handle_call("cached", World, c, x, mmap_mode, d)
                         = handle_call("cached", World, c, y, mmap_mode, d)
        /\ ( /\ last.op = "call"
             /\ last'.op = "call"
             /\ last' # last
             /\ last'.c = last.c
             /\ bound_args(last.c, last'.x).l = bound_args(last.c, last.x).l )
           => /\ last'.ran = 0
              /\ last'.out = last.out
              /\ EndsWithLoad(last'.ops)
      ]_vars

C15_Witness ==
    /\ last.op = "call"
    /\ last.prev = "call"
    /\ last.c \in IgnoringFuncs
    /\ last.x = <<1, 1>>
    /\ last.ran = 0
    /\ IsValueOf(last.out, last.c, last.x)
    /\ DOMAIN store_items = {PathOf(last.c, <<1, 0>>)}

\* The position of a stored artifact in the order of last access.
Rank(order, p) == CHOOSE i \in 1..Len(order) : order[i] = p

\* C16: after Memory.reduce_size() with bytes_limit = B the stored bytes
\* are at most B; an evicted artifact is gone with its metadata and a
\* surviving one is left as it was; every surviving artifact was used more
\* recently than every evicted one.
C16_ByteCeiling ==
    [][ (last'.op = "reduce_size" /\ last'.ref # <<>>)
          => /\ store_size(store_items') <= last'.ref[1]
             /\ DOMAIN store_items' \subseteq DOMAIN store_items
             /\ DOMAIN store_meta' = DOMAIN store_meta
                   \ (DOMAIN store_items \ DOMAIN store_items')
             /\ \A p \in DOMAIN store_items' :
                   /\ store_items'[p] = store_items[p]
                   /\ store_meta'[p] = store_meta[p]
             /\ \A e \in DOMAIN store_items \ DOMAIN store_items' :
                \A p \in DOMAIN store_items' :
                   Rank(store_access, e) < Rank(store_access, p)
      ]_vars

C16_Witness ==
    /\ last.op = "reduce_size"
    /\ last.ref # <<>>
    /\ last.ops = <<"clear_location", "reduce_store_size">>
    /\ Cardinality(DOMAIN store_items) = 1
    /\ store_size(store_items) <= last.ref[1]

\* C17: when the root of the store has been deleted while the Memory and
\* its handles are live, the next call cached_f(x) runs f, returns f(x) and
\* stores a readable artifact again, and the call cached_f(x) that follows
\* it is a hit: f does not run and the stored value is loaded.
C17_RootDeletedRebuilds ==
    [][ /\ ( /\ last.op = "root_deleted"
             /\ last'.op = "call"
             /\ ~Raises(last'.c, last'.x) )
           => /\ last'.ran = 1
              /\ IsValueOf(last'.out, last'.c, last'.x)
              /\ PathOf(last'.c, last'.x) \in DOMAIN store_items'
              /\ store_items'[PathOf(last'.c, last'.x)].readable
        /\ ( /\ last.op = "call"
             /\ last.prev = "root_deleted"
             /\ last'.op = "call"
             /\ last'.prev = "call"
             /\ last'.c = last.c
             /\ last'.x = last.x
             /\ ~Raises(last'.c, last'.x) )
           => /\ last'.ran = 0
              /\ last'.out = last.out
              /\ EndsWithLoad(last'.ops)
      ]_vars

C17_Witness ==
    /\ last.op = "call"
    /\ last.prev = "call"
    /\ last.ran = 0
    /\ store_code = <<>>
    /\ DOMAIN store_items = {PathOf(last.c, last.x)}
    /\ IsValueOf(last.out, last.c, last.x)

\* C18: a LoadError raised by load_item at any point of a call, the load
\* after the presence check or the re-load after the computation, never
\* reaches the caller: every call that has finished returned a value and
\* raised nothing.
C18_LoadErrorRecovered ==
    last.op = "call"
      => /\ ~IsRaised(last.out)
         /\ last.out.kind \in {"raw", "mmap"}

\* The change check of callable c, run now, would take the fast path.
FastPath(c) == c \in DOMAIN FUNCTION_HASHES /\ hash_func(c) = FUNCTION_HASHES[c]

\* The change check of c, run now, would find no stored source.
FirstRegistration(c) ==
    ~FastPath(c) /\ ~has_cached_func_code(World, build_func_identifier(c))

\* The change check of c, run now, would find another stored source.
ChangeDetected(c) ==
    /\ ~FastPath(c)
    /\ has_cached_func_code(World, build_func_identifier(c))
    /\ extract_first_line(
         get_cached_func_code(World, build_func_identifier(c))).code
         # get_func_code(c).code

\* The backend operations of an operation of the handle itself: eval first
\* builds the handle, which creates the container of the function.
HandleOps(l) == IF l.op = "eval" THEN Tail(l.ops) ELSE l.ops

\* The positions at which the source text is written.
SourceWrites(ops) == {i \in DOMAIN ops : ops[i] = "store_cached_func_code"}

\* The step is a call, an eval, a call_and_shelve or a clear of a handle.
HandleStep ==
    last' # last /\ last'.op \in {"call", "eval", "call_and_shelve", "clear"}

\* The statement of C19 as it stands: the stored source text is written
\* only when the change check has detected a definition change, and every
\* such write is followed by a full clear of the artifacts of the func_id.
C19_WrittenOnlyOnChange ==
    [][ HandleStep
          => \A i \in SourceWrites(HandleOps(last')) :
               /\ ChangeDetected(last'.c)
               /\ \E j \in DOMAIN HandleOps(last') :
                     j > i /\ HandleOps(last')[j] = "clear_path"
      ]_vars

\* C19: the stored source text of a func_id is written only by the change
\* check, when it finds no stored source or a different one, and by an
\* explicit clear of the handle; no other operation changes it.  When the
\* check finds a different source, and in a clear, the write comes directly
\* after the full clear (clear_path) of the func_id, in the same operation,
\* and the only artifact of the func_id stored afterwards is the one that
\* operation computed; the first registration clears nothing.
C19_SourceWrites ==
    [][ /\ HandleStep
           => /\ SourceWrites(HandleOps(last')) # {}
                   <=> \/ last'.op = "clear"
                       \/ ChangeDetected(last'.c)
                       \/ FirstRegistration(last'.c)
              /\ (last'.op = "clear" \/ ChangeDetected(last'.c))
                   => /\ \A i \in SourceWrites(HandleOps(last')) :
                           i > 1 /\ HandleOps(last')[i - 1] = "clear_path"
                      /\ \A p \in PathsOf(last'.c) :
                           p \in DOMAIN store_items'
                             => /\ last'.op # "clear"
                                /\ p = PathOf(last'.c, last'.x)
                                /\ last'.ran = 1
              /\ (last'.op # "clear" /\ FirstRegistration(last'.c))
                   => \A j \in DOMAIN HandleOps(last') :
                        HandleOps(last')[j] # "clear_path"
              /\ SourceWrites(HandleOps(last')) # {}
                   => extract_first_line(
                        store_code'[build_func_identifier(last'.c)]).code
                        = get_func_code(last'.c).code
        /\ (last' # last /\ ~HandleStep)
           => \A f \in DOMAIN store_code' :
                f \in DOMAIN store_code /\ store_code'[f] = store_code[f]
      ]_vars

C19_Witness ==
    /\ last.op = "call"
    /\ last.prev = "redefine"
    /\ last.ops = <<"get_cached_func_code", "clear_path",
                    "store_cached_func_code", "dump_item", "store_metadata">>
    /\ DOMAIN store_items = {PathOf(last.c, last.x)}
    /\ extract_first_line(store_code[build_func_identifier(last.c)]).code
         = get_func_code(last.c).code

\* The change check of c, run now, would read the stored source and find
\* it equal to the current source.
SourceMatches(c) ==
    /\ ~FastPath(c)
    /\ has_cached_func_code(World, build_func_identifier(c))
    /\ extract_first_line(
         get_cached_func_code(World, build_func_identifier(c))).code
         = get_func_code(c).code

\* C20: when the change check finds the stored source equal to the current
\* source of the callable, the call proceeds as on a match and the triple
\* of the callable is in the identity cache afterwards, so that the next
\* check on the callable does not read the stored source.
C20_MatchRecorded ==
    [][ ( /\ last' # last
          /\ last'.op \in {"call", "call_and_shelve"}
          /\ SourceMatches(last'.c) )
        => /\ last'.ops[1] = "get_cached_func_code"
           /\ SourceWrites(last'.ops) = {}
           /\ last'.c \in DOMAIN FUNCTION_HASHES'
           /\ FUNCTION_HASHES'[last'.c] = hash_func(last'.c)
      ]_vars

\* C21: when the callable is in the identity cache with an unchanged
\* triple, the change check declares match and reads, writes and clears
\* nothing in the store, whatever source the store holds for the func_id:
\* the check leaves the store and the identity cache as they are, the call
\* performs no operation on the stored source, and a stored readable
\* artifact is loaded without running the function.
C21_FastPathTouchesNothing ==
    [][ ( /\ last' # last
          /\ last'.op \in {"call", "call_and_shelve"}
          /\ FastPath(last'.c) )
        => /\ check_previous_func_code(World, last'.c)
                = [World EXCEPT !.ok = TRUE]
           /\ \A i \in DOMAIN last'.ops :
                last'.ops[i] \notin {"get_cached_func_code",
                                     "store_cached_func_code", "clear_path"}
           /\ store_code' = store_code
           /\ FUNCTION_HASHES' = FUNCTION_HASHES
           /\ ( /\ PathOf(last'.c, last'.x) \in DOMAIN store_items
                /\ store_items[PathOf(last'.c, last'.x)].readable )
              => last'.ran = 0
      ]_vars

C21_Witness ==
    /\ last.op = "call"
    /\ last.ran = 0
    /\ last.ops = <<"contains_item", "load_item">>
    /\ FastPath(last.c)
    /\ extract_first_line(store_code[build_func_identifier(last.c)]).code
         # get_func_code(last.c).code

\* C22: when no source is stored for the func_id, the change check writes
\* the current source and declares miss; the call then runs the function
\* and dumps its output over whatever artifact is stored for the path,
\* without contains_item and without any load_item before the dump (the
\* only load_item of such a call is the re-load, when mmap_mode is set, of
\* the artifact the call has just written).
C22_FirstRegistrationComputes ==
    [][ ( /\ last' # last
          /\ last'.op \in {"call", "call_and_shelve"}
          /\ FirstRegistration(last'.c) )
        => /\ Len(last'.ops) >= 4
           /\ SubSeq(last'.ops, 1, 4)
                = <<"get_cached_func_code", "store_cached_func_code",
                    "dump_item", "store_metadata">>
           /\ \A i \in DOMAIN last'.ops :
                /\ last'.ops[i] # "contains_item"
                /\ last'.ops[i] = "load_item"
                     => (i = 5 /\ mmap_mode # "none")
           /\ last'.ran = 1
           /\ last'.op = "call" => IsValueOf(last'.out, last'.c, last'.x)
           /\ extract_first_line(
                store_code'[build_func_identifier(last'.c)]).code
                = get_func_code(last'.c).code
           /\ store_items'[PathOf(last'.c, last'.x)]
                = Serialize(Raw(Body(last'.c, last'.x)))
      ]_vars

C22_Witness ==
    /\ last.op = "call"
    /\ last.ran = 1
    /\ Len(last.ops) >= 3
    /\ SubSeq(last.ops, 1, 3)
         = <<"get_cached_func_code", "store_cached_func_code", "dump_item">>
    /\ accumulator[PathOf(last.c, last.x)] >= 2
    /\ IsValueOf(last.out, last.c, last.x)

\* C23: a call_and_shelve whose change check matches and whose artifact is
\* present performs no load_item, does not run the function and performs
\* no dump_item and no store_metadata; the artifacts and the metadata in
\* the store are left as they are and the reference names the path.
C23_ShelveShortCircuit ==
    [][ ( /\ last' # last
          /\ last'.op = "call_and_shelve"
          /\ (FastPath(last'.c) \/ SourceMatches(last'.c))
          /\ PathOf(last'.c, last'.x) \in DOMAIN store_items )
        => /\ last'.ran = 0
           /\ last'.dumped = <<>>
           /\ \A i \in DOMAIN last'.ops :
                last'.ops[i] \notin {"load_item", "dump_item",
                                     "store_metadata"}
           /\ store_items' = store_items
           /\ store_meta' = store_meta
           /\ last'.ref.path = PathOf(last'.c, last'.x)
      ]_vars

C23_Witness ==
    /\ last.op = "call_and_shelve"
    /\ last.prev = "call"
    /\ last.ran = 0
    /\ last.ops = <<"contains_item", "get_metadata">>
    /\ last.ref.path = PathOf(last.c, last.x)
    /\ last.ref.path \in DOMAIN store_items

\* C24: a stored pair whose artifact is present but unreadable is treated
\* as absent by call_and_shelve too: after call_and_shelve on such a pair
\* the function has run and the artifact is present and readable, and get()
\* on a reference just returned by call_and_shelve raises nothing.
C24_UnreadableIsAbsent ==
    [][ /\ ( /\ last' # last
             /\ last'.op = "call_and_shelve"
             /\ PathOf(last'.c, last'.x) \in DOMAIN store_items
             /\ ~store_items[PathOf(last'.c, last'.x)].readable )
           => /\ last'.ran = 1
              /\ PathOf(last'.c, last'.x) \in DOMAIN store_items'
              /\ store_items'[PathOf(last'.c, last'.x)].readable
        /\ (last' # last /\ last.op = "call_and_shelve" /\ last'.op = "get")
           => ~IsRaised(last'.out)
      ]_vars

\* The collision warnings among the warnings of an operation.
CollisionWarnings(warns) ==
    {i \in DOMAIN warns : warns[i] \in {"Cannot detect name collisions",
                                        "Possible name collisions"}}

\* C25: one run of the change check that finds differing source emits at
\* most one collision warning, and the warning is not fatal: the check
\* clears the cache of the function and the call runs the function and
\* returns its value.
C25_OneCollisionWarning ==
    [][ ( /\ last' # last
          /\ last'.op \in {"call", "call_and_shelve"}
          /\ ChangeDetected(last'.c) )
        => /\ Cardinality(CollisionWarnings(last'.warns)) <= 1
           /\ \E i \in DOMAIN last'.ops : last'.ops[i] = "clear_path"
           /\ last'.ran = 1
           /\ last'.op = "call" => IsValueOf(last'.out, last'.c, last'.x)
      ]_vars

\* The cache path of the call task t is running.
RunningPath(t) == PathOf(running[t].c, running[t].x)

\* The statement of C26 as it stands: once the last of several concurrent
\* computations has returned, the duration in the stored metadata of its
\* path is the duration of that computation, the one that finished last.
C26_DurationOfLastFinished ==
    [][ \A t \in Tasks :
          (pc[t] = "return" /\ AllIdle')
            => store_meta'[RunningPath(t)].duration = running[t].duration
      ]_vars

\* C26: the duration in the stored metadata of a path is the duration of
\* the computation whose store_metadata ran last, and the stored artifact is
\* the output of the computation whose dump_item ran last: store_metadata
\* writes the metadata of its own computation and leaves the artifacts
\* alone, dump_item writes the output of its own computation and leaves the
\* metadata alone, and no other statement of a call changes either.
C26_LastWriterWins ==
    [][ \A t \in Tasks :
          /\ (pc[t] = "persist" /\ pc'[t] = "return")
               => /\ store_meta' =
                       (RunningPath(t) :>
                          input_metadata(running[t].c, running[t].duration,
                                         running[t].x)) @@ store_meta
                  /\ store_items' = store_items
          /\ (pc[t] = "dump" /\ pc'[t] = "persist")
               => /\ store_items' =
                       (RunningPath(t) :> Serialize(running[t].w.out))
                         @@ store_items
                  /\ store_meta' = store_meta
          /\ (pc'[t] # pc[t] /\ pc[t] \notin {"dump", "persist"})
               => (store_items' = store_items /\ store_meta' = store_meta)
      ]_vars

C26_Witness ==
    /\ AllIdle
    /\ last.op = "call"
    /\ \E p \in DOMAIN store_meta :
         /\ accumulator[p] >= 2
         /\ p \in DOMAIN store_items
         /\ store_meta[p].duration = Elapsed("t1")
         /\ store_access[Len(store_access)] = p

\* The store holds a readable artifact for the path and no metadata.
ArtifactWithoutMetadata(p) ==
    /\ p \in DOMAIN store_items
    /\ store_items[p].readable
    /\ p \notin DOMAIN store_meta

\* C27: when a call has stopped after dump_item and before store_metadata
\* the store holds the artifact without metadata, and that is tolerated: a
\* later call of the path loads the artifact and does not run the function;
\* a later call_and_shelve does not run it either and returns a reference
\* with empty metadata and no duration; get() on that reference returns
\* the value.
C27_MissingMetadataTolerated ==
    [][ /\ ( /\ last' # last
             /\ last'.op = "call"
             /\ ArtifactWithoutMetadata(PathOf(last'.c, last'.x)) )
           => /\ last'.ran = 0
              /\ EndsWithLoad(last'.ops)
              /\ IsValueOf(last'.out, last'.c, last'.x)
        /\ ( /\ last' # last
             /\ last'.op = "call_and_shelve"
             /\ ArtifactWithoutMetadata(PathOf(last'.c, last'.x)) )
           => /\ last'.ran = 0
              /\ last'.ref.path = PathOf(last'.c, last'.x)
              /\ last'.ref.metadata = <<>>
              /\ last'.ref.duration = <<>>
              /\ ~IsRaised(last'.out)
        /\ ( /\ last' # last
             /\ last.op = "call_and_shelve"
             /\ last'.op = "get"
             /\ ArtifactWithoutMetadata(last.ref.path) )
           => IsValueOf(last'.out, last'.c, last'.x)
        /\ \A t \in Tasks :
             (pc[t] = "persist" /\ pc'[t] = "idle")
               => /\ RunningPath(t) \in DOMAIN store_items'
                  /\ store_items' = store_items
                  /\ store_meta' = store_meta
      ]_vars

C27_Witness ==
    /\ last.op = "get"
    /\ last.prev = "call_and_shelve"
    /\ last.ref.metadata = <<>>
    /\ last.ref.duration = <<>>
    /\ IsValueOf(last.out, last.c, last.x)
    /\ ArtifactWithoutMetadata(last.ref.path)

\* C28: a no-cache reference carries the value call_and_shelve computed and
\* is valid; get() returns the carried value as long as clear() has not been
\* called, whatever else ran in between; clear() makes the reference invalid
\* and drops the value; from then on the reference stays invalid, get()
\* raises KeyError, and a further clear() changes nothing.
C28_NoCacheReference ==
    [][ (last' # last /\ last'.m = "transparent") =>
          /\ last'.op = "call_and_shelve"
               => last'.ref = [value |-> Raw(Body(last'.c, last'.x)),
                               valid |-> TRUE]
          /\ (last'.op \in {"get", "call"} /\ HoldsReference)
               => last'.ref = last.ref
          /\ (last'.op = "get" /\ HoldsReference /\ last.ref.valid)
               => last'.out = last.ref.value
          /\ (last'.op = "get" /\ HoldsReference /\ ~last.ref.valid)
               => last'.out = Raised("KeyError")
          /\ last'.op = "ref_clear"
               => last'.ref = [value |-> None, valid |-> FALSE]
          /\ (HoldsReference /\ ~last.ref.valid
               /\ last'.op # "call_and_shelve")
               => last'.ref = last.ref
      ]_vars

C28_Witness ==
    /\ last.m = "transparent"
    /\ last.op = "get"
    /\ last.prev = "ref_clear"
    /\ last.ref = [value |-> None, valid |-> FALSE]
    /\ last.out = Raised("KeyError")

\* C29: with two live handles that wrap distinct callables of different
\* source under one func_id, a call that returns a value returns the value
\* of the callable it was made on, never one the other callable computed.
C29_NoForeignValue ==
    (last.op \in {"call", "get"} /\ ~IsRaised(last.out))
      => IsValueOf(last.out, last.c, last.x)

FuncIds == {build_func_identifier(c) : c \in Funcs}

\* The stored source and the artifacts of func_id g are what they were.
FunctionCacheUnchanged(g) ==
    /\ (g \in DOMAIN store_code') = (g \in DOMAIN store_code)
    /\ g \in DOMAIN store_code => store_code'[g] = store_code[g]
    /\ \A p \in Paths :
         p[1] = g
           => /\ (p \in DOMAIN store_items') = (p \in DOMAIN store_items)
              /\ p \in DOMAIN store_items
                   => store_items'[p] = store_items[p]

\* C30: cached_f.clear(), and the invalidation a call performs when it
\* detects a redefinition, leave the stored source and the artifacts of
\* every other func_id as they were, also those of a func_id that has the
\* cleared one as a prefix (a.b.c against a.b).
C30_ClearLeavesOthers ==
    [][ ( /\ last' # last
          /\ last'.op \in {"clear", "call"}
          /\ \E i \in DOMAIN last'.ops : last'.ops[i] = "clear_path" )
          => \A g \in FuncIds \ {build_func_identifier(last'.c)} :
                FunctionCacheUnchanged(g)
      ]_vars

\* C31: after calls, clears and deletions of the whole store, once a call
\* has completed every func_id that has an artifact stored also has its
\* source text stored, so that a fresh process, whose identity cache is
\* empty, calling the function on arguments whose artifact is stored loads
\* it and does not run the function.
C31_SourceStoredWithArtifact ==
    [][ /\ (last' # last /\ last'.op = "call")
           => \A p \in DOMAIN store_items' :
                has_cached_func_code(World', p[1])
        /\ ( /\ last' # last
             /\ last.op = "fresh_process"
             /\ last'.op = "call"
             /\ contains_item(World, PathOf(last'.c, last'.x))
             /\ ~load_item_fails(World, PathOf(last'.c, last'.x)) )
           => /\ last'.ran = 0
              /\ EndsWithLoad(last'.ops)
      ]_vars

====
